---------------------------- MODULE Spec2Model ----------------------------
(***************************************************************************)
(* Model of fastloop_trader.py: the polling loop of __main__, one cycle of *)
(* run_fast_market_strategy split at its external calls (price fetch,      *)
(* market discovery, client construction, import_market, trade), and the   *)
(* two providers the cycle reads (the kline feed and the market list).     *)
(*                                                                         *)
(* Prices, volumes and amounts are integers; the float expressions of the  *)
(* source are evaluated exactly, as comparisons of cross-multiplied        *)
(* integers.  A kline [open_time, open, high, low, close, volume, ...] is  *)
(* the record [open, close, volume] of the three fields the code reads.    *)
(* A question is a sequence of words and a slug is the sequence of its     *)
(* "-"-separated parts.                                                    *)
(***************************************************************************)
EXTENDS Integers, Sequences, FiniteSets, TLC

VARIABLES
    file_cfg,       \* config.json: per option, None or the value the file gives
    environ,        \* os.environ: per option, None or the string of its variable
    cfg,            \* the global cfg: None before _load_config, then the loaded options
    clientCalls,    \* the get_client calls of a caller other than the cycle, in order
    dry_run,        \* run_fast_market_strategy's argument: not args.live
    pc,             \* position of the main loop / of the running cycle
    feed,           \* price provider: the most recent 1m klines, oldest first
    listings,       \* market provider: the listings it returns, in its order
    client,         \* the global _client: None or the constructed client
    res,            \* the klines fetched by this cycle
    momentum,       \* the local momentum: None or the signal record
    markets,        \* the local markets: discover_markets' result
    mid,            \* the local mid: None or import_market's market_id
    trades,         \* client.trade calls made by this cycle, in order
    calls,          \* external calls made by this cycle
    responses,      \* what _api_request returned to this cycle, in order
    caught,         \* which handler caught this cycle's exception, if any
    spent_today,    \* total amount of the trades that succeeded so far
    signalTrades    \* trades placed since the feed or the matched market last changed

vars == <<file_cfg, environ, cfg, clientCalls, dry_run, pc, feed, listings, client, res, momentum, markets, mid,
          trades, calls, responses, caught, spent_today, signalTrades>>

-----------------------------------------------------------------------------
(* Bounds of the model *)

\* cfg["lookback_minutes"] of the modelled process (the klines request's limit)
lookback_minutes == 2
\* most listings the market provider returns in one response
MaxListings == 2
\* most trades the trading collaborator lets succeed in one run
MaxFills == 3
MaxMatcherList == 3     \* longest list of listings given to discover_markets alone
MaxClientCalls == 4     \* get_client calls of a caller other than the cycle

-----------------------------------------------------------------------------
(* Configuration: CONFIG_SCHEMA defaults, as loaded into cfg *)

\* min_momentum_pct 0.5, in hundredths of a percent
min_momentum_pct_x100 == 50
\* entry_threshold 0.05, in hundredths
entry_threshold_x100 == 5
max_position == 5
daily_budget == 10
asset == "BTC"
window == "5m"

\* what no step of the polling loop changes
fixed == <<file_cfg, environ, cfg, clientCalls>>

None == <<>>
Some(x) == <<x>>
Abs(x) == IF x < 0 THEN -x ELSE x


-----------------------------------------------------------------------------
(* The providers' data *)

\* the kline of an interval that has ended
Candle(o, c, v) == [open |-> o, close |-> c, volume |-> v, closed |-> TRUE]

\* the kline of the interval in progress: its close is the last price so far
InProgress(o, c, v) == [open |-> o, close |-> c, volume |-> v, closed |-> FALSE]

\* klines the price provider can publish: a rise inside the interval, the
\* same interval while in progress with a rise below the threshold, and a
\* fall without volume
Candles ==
    { Candle(201, 205, 1), InProgress(201, 202, 1), Candle(205, 201, 0) }

Volumes == {0, 1}

Listing(q, s, a) == [question |-> q, slug |-> s, active |-> a]

\* listings the market provider can return; active is "true", "false" or
\* "absent" (the record carries no activity flag)
Listings ==
    { Listing(<<"Bitcoin", "Up", "or", "Down">>, <<"btc", "updown", "5m", "1">>, "true"),
      Listing(<<"BITCOIN", "UP", "OR", "DOWN">>, <<"btc", "updown", "5m", "2">>, "false"),
      Listing(<<"Ethereum", "Up", "or", "Down">>, <<"eth", "updown", "5m", "1">>, "absent") }

RECURSIVE SeqsUpTo(_, _)
\* the sequences over S of length at most n
SeqsUpTo(S, n) ==
    IF n = 0 THEN { <<>> }
    ELSE LET shorter == SeqsUpTo(S, n - 1)
         IN  shorter \cup { Append(q, x) : q \in { t \in shorter : Len(t) = n - 1 }, x \in S }

\* the windows of at most n klines the price provider can return: only the
\* newest kline can be the one in progress
Windows(n) == { w \in SeqsUpTo(Candles, n) : \A i \in 1..(Len(w) - 1) : w[i].closed }

\* the lists of at most n distinct listings the market provider can return
ListingLists(n) ==
    { q \in SeqsUpTo(Listings, n) : \A i, j \in 1..Len(q) : i # j => q[i] # q[j] }

\* the last n elements of q
LastN(q, n) == IF Len(q) <= n THEN q ELSE SubSeq(q, Len(q) - n + 1, Len(q))

\* listings of another window and of a third asset, for discover_markets alone
MatcherListings ==
    Listings \cup
    { Listing(<<"Bitcoin", "Up", "or", "Down">>, <<"btc", "updown", "15m", "1">>, "true"),
      Listing(<<"Solana", "Up", "or", "Down">>, <<"sol", "updown", "5m", "1">>, "true") }

\* the lists of at most n distinct listings over MatcherListings
MatcherLists(n) ==
    { q \in SeqsUpTo(MatcherListings, n) : \A i, j \in 1..Len(q) : i # j => q[i] # q[j] }

\* what the two providers can hold in this model
FeedStates == Windows(lookback_minutes)
ListingStates == ListingLists(MaxListings)

-----------------------------------------------------------------------------
(* Module constants *)

ASSET_PATTERNS ==
    [a \in {"BTC", "ETH", "SOL"} |->
        CASE a = "BTC" -> { <<"bitcoin", "up", "or", "down">> }
          [] a = "ETH" -> { <<"ethereum", "up", "or", "down">> }
          [] a = "SOL" -> { <<"solana", "up", "or", "down">> }]

\* str.lower() on the words of the model
Lower(w) ==
    CASE w \in {"Bitcoin", "BITCOIN"} -> "bitcoin"
      [] w \in {"Ethereum", "ETHEREUM"} -> "ethereum"
      [] w \in {"Solana", "SOLANA"} -> "solana"
      [] w \in {"Up", "UP"} -> "up"
      [] w \in {"Or", "OR"} -> "or"
      [] w \in {"Down", "DOWN"} -> "down"
      [] w \in {"Yes", "YES"} -> "yes"
      [] w \in {"No", "NO"} -> "no"
      [] OTHER -> w

LowerAll(q) == [i \in 1..Len(q) |-> Lower(q[i])]

\* p in q: p occurs in q as a contiguous run
Contains(q, p) ==
    \E i \in 0..(Len(q) - Len(p)) : \A j \in 1..Len(p) : q[i + j] = p[j]

\* f"-{window}-" in slug: the window is a part of the slug that is neither
\* its first nor its last
SlugHasWindow(slug, w) == \E i \in 2..(Len(slug) - 1) : slug[i] = w

-----------------------------------------------------------------------------
(* _load_config *)

\* the options of CONFIG_SCHEMA whose sources the model varies
ConfigKeys == {"max_position", "volume_confidence"}

\* spec.get("default")
DefaultOf(k) == IF k = "max_position" THEN max_position ELSE TRUE

\* spec.get("type", str)
TypeOf(k) == IF k = "max_position" THEN "float" ELSE "bool"

\* float(val): the number a string denotes, or ValueError
ParseFloat(val) ==
    CASE val = "3" -> [raises |-> FALSE, value |-> 3]
      [] val = "0" -> [raises |-> FALSE, value |-> 0]
      [] OTHER     -> [raises |-> TRUE, value |-> 0]

\* val.lower() in ("true", "1", "yes") if type_fn == bool else type_fn(val)
Convert(k, val) ==
    IF TypeOf(k) = "bool"
    THEN [raises |-> FALSE, value |-> Lower(val) \in {"true", "1", "yes"}]
    ELSE ParseFloat(val)

\* One option with the environment consulted before the file
LoadKey_envFirst(k, f, e) ==
    IF e[k] # None /\ e[k][1] # "" THEN Convert(k, e[k][1])
    ELSE IF f[k] # None THEN [raises |-> FALSE, value |-> f[k][1]]
    ELSE [raises |-> FALSE, value |-> DefaultOf(k)]

\* One iteration of _load_config's loop: the file's value, else the converted
\* value of a variable that is set and not empty, else the default
LoadKey(k, f, e) ==
    IF f[k] # None THEN [raises |-> FALSE, value |-> f[k][1]]
    ELSE IF e[k] # None /\ e[k][1] # "" THEN Convert(k, e[k][1])
    ELSE [raises |-> FALSE, value |-> DefaultOf(k)]

\* _load_config(CONFIG_SCHEMA, __file__): the loaded options, or the
\* ValueError of a conversion
load_config(f, e) ==
    LET mp == LoadKey("max_position", f, e)
        vc == LoadKey("volume_confidence", f, e)
    IN  IF mp.raises \/ vc.raises THEN [raises |-> TRUE, value |-> None]
        ELSE [raises |-> FALSE,
              value |-> Some([max_position |-> mp.value, volume_confidence |-> vc.value])]

\* no config.json and no variable set
NoFile == [max_position |-> None, volume_confidence |-> None]
NoEnviron == [max_position |-> None, volume_confidence |-> None]

\* the files and environments a process can be started with
FileConfigs ==
    [max_position : {None, Some(0), Some(7)}, volume_confidence : {None, Some(FALSE)}]
Environs ==
    [max_position : {None, Some(""), Some("3"), Some("abc")},
     volume_confidence : {None, Some(""), Some("YES"), Some("no")}]

-----------------------------------------------------------------------------
(* _api_request and the two functions built on it *)

\* What _api_request returns for a request: the parsed JSON list ("ok", with
\* the list), the dict {"error": ...} it makes of any exception ("error"),
\* or a JSON object of the provider that holds no "error" key ("object")
ApiResult(kind, body) == [kind |-> kind, body |-> body]

ApiKinds == {"ok", "error", "object"}

RECURSIVE SumVolumes(_)
SumVolumes(r) == IF r = <<>> THEN 0 ELSE r[1].volume + SumVolumes(Tail(r))

\* "up" if p_now > p_then else "down"
Direction_tieUp(p_now, p_then) == IF p_now >= p_then THEN "up" ELSE "down"

Direction(p_now, p_then) == IF p_now > p_then THEN "up" ELSE "down"

\* p_then, p_now = float(res[0][1]), float(res[-1][4]): the open of the oldest
\* kline and the close of the newest
PriceThen(r) == r[1].open
PriceNow(r) == r[Len(r)].close

\* The dict get_binance_momentum returns.  momentum_pct is the fraction
\* pct_num / pct_den and volume_ratio the fraction vr_num / vr_den.
MomentumOf(r) ==
    [ pct_num    |-> (PriceNow(r) - PriceThen(r)) * 100,
      pct_den    |-> PriceThen(r),
      direction  |-> Direction(PriceNow(r), PriceThen(r)),
      price_now  |-> PriceNow(r),
      price_then |-> PriceThen(r),
      vr_num     |-> r[Len(r)].volume * Len(r),
      vr_den     |-> SumVolumes(r) ]

\* The divisions of lines 99 and 102 raise ZeroDivisionError
MomentumRaises(r) == PriceThen(r) = 0 \/ SumVolumes(r) = 0

\* get_binance_momentum without the test of line 95 for an error result:
\* res[0] on the dict {"error": ...} raises KeyError
get_binance_momentum_noErrorTest(result) ==
    CASE result.kind \in {"error", "object"} -> [raises |-> TRUE, value |-> None]
      [] OTHER ->
            IF result.body = <<>> THEN [raises |-> FALSE, value |-> None]
            ELSE IF MomentumRaises(result.body) THEN [raises |-> TRUE, value |-> None]
            ELSE [raises |-> FALSE, value |-> Some(MomentumOf(result.body))]

\* get_binance_momentum on _api_request's result: raises, or returns None
\* or the momentum dict.  An "object" result fails at res[0] (KeyError).
get_binance_momentum(result) ==
    CASE result.kind = "error" -> [raises |-> FALSE, value |-> None]
      [] result.kind = "object" -> [raises |-> TRUE, value |-> None]
      [] OTHER ->
            IF result.body = <<>> THEN [raises |-> FALSE, value |-> None]
            ELSE IF MomentumRaises(result.body) THEN [raises |-> TRUE, value |-> None]
            ELSE [raises |-> FALSE, value |-> Some(MomentumOf(result.body))]

\* The condition without the restriction to the configured asset
Matches_anyAsset(m, a, w) ==
    /\ \E b \in DOMAIN ASSET_PATTERNS : \E p \in ASSET_PATTERNS[b] : Contains(LowerAll(m.question), p)
    /\ SlugHasWindow(m.slug, w)

\* The condition of discover_markets' list comprehension
Matches(m, a, w) ==
    /\ \E p \in ASSET_PATTERNS[a] : Contains(LowerAll(m.question), p)
    /\ SlugHasWindow(m.slug, w)

RECURSIVE Filter(_, _, _)
Filter(ms, a, w) ==
    IF ms = <<>> THEN <<>>
    ELSE IF Matches(ms[1], a, w) THEN <<ms[1]>> \o Filter(Tail(ms), a, w)
    ELSE Filter(Tail(ms), a, w)

\* discover_markets without the test of line 108 for an error result:
\* iterating the dict {"error": ...} yields the str "error"
discover_markets_noErrorTest(result, a, w) ==
    CASE result.kind \in {"error", "object"} -> [raises |-> TRUE, value |-> <<>>]
      [] OTHER -> [raises |-> FALSE, value |-> Filter(result.body, a, w)]

\* discover_markets on _api_request's result.  Iterating an "object" yields
\* its keys, and m.get on a str raises AttributeError.
discover_markets(result, a, w) ==
    CASE result.kind = "error" -> [raises |-> FALSE, value |-> <<>>]
      [] result.kind = "object" -> [raises |-> TRUE, value |-> <<>>]
      [] OTHER -> [raises |-> FALSE, value |-> Filter(result.body, a, w)]

\* abs(momentum["momentum_pct"]) < cfg["min_momentum_pct"], compared against
\* the wrong option
TooWeak_entryThreshold(m) ==
    Abs(m.pct_num) * 100 < entry_threshold_x100 * Abs(m.pct_den)

\* abs(momentum["momentum_pct"]) < cfg["min_momentum_pct"]
TooWeak(m) ==
    Abs(m.pct_num) * 100 < min_momentum_pct_x100 * Abs(m.pct_den)

\* the side with the two outcomes exchanged
Side_inverted(m) == IF m.direction = "up" THEN "no" ELSE "yes"

\* side = "yes" if momentum["direction"] == "up" else "no"
Side(m) == IF m.direction = "up" THEN "yes" ELSE "no"

\* get_client's construction with the wrong mode
NewClient_alwaysLive(live) == [live |-> TRUE, id |-> Len(clientCalls) + 1]

\* SimmerClient(api_key=..., venue=..., live=live): a new object, told apart
\* from any other by id
NewClient(live) == [live |-> live, id |-> Len(clientCalls) + 1]

\* get_client that constructs a client on every call
get_client_noLatch(c, live, constructs) ==
    IF constructs
    THEN [raises |-> FALSE, client |-> Some(NewClient(live)), returned |-> Some(NewClient(live))]
    ELSE [raises |-> TRUE, client |-> c, returned |-> None]

\* get_client(live) with _client = c: the new value of _client and the
\* client returned; the construction of line 83 succeeds or raises
get_client(c, live, constructs) ==
    IF c # None THEN [raises |-> FALSE, client |-> c, returned |-> c]
    ELSE IF constructs
    THEN [raises |-> FALSE, client |-> Some(NewClient(live)), returned |-> Some(NewClient(live))]
    ELSE [raises |-> TRUE, client |-> c, returned |-> None]

\* the market_id import_market returns for a listing
MarketId(m) == <<"market">> \o m.slug

-----------------------------------------------------------------------------
(* The state machine *)

Init ==
    /\ file_cfg = NoFile
    /\ environ = NoEnviron
    /\ cfg = load_config(NoFile, NoEnviron).value
    /\ clientCalls = <<>>
    /\ dry_run \in BOOLEAN
    /\ pc = "idle"
    /\ feed \in FeedStates
    /\ listings \in ListingStates
    /\ client = None
    /\ res = <<>>
    /\ momentum = None
    /\ markets = <<>>
    /\ mid = None
    /\ trades = <<>>
    /\ calls = {}
    /\ responses = <<>>
    /\ caught = "none"
    /\ spent_today = 0
    /\ signalTrades = 0

\* the first listing discover_markets would return for ls, if any
FirstMatch(ls) ==
    LET found == Filter(ls, asset, window)
    IN  IF found = <<>> THEN None ELSE Some(found[1])

\* The price provider closes a 1m interval: the klines request now returns
\* the window moved by one kline
NewCandle ==
    /\ pc = "idle"
    /\ IF feed # <<>> /\ ~feed[Len(feed)].closed
       THEN \E c \in Candles :
               /\ c.closed /\ c.open = feed[Len(feed)].open
               /\ feed' = [feed EXCEPT ![Len(feed)] = c]
       ELSE \E c \in Candles : feed' = LastN(Append(feed, c), lookback_minutes)
    /\ signalTrades' = 0
    /\ UNCHANGED <<fixed, responses, dry_run, pc, listings, client, res, momentum, markets, mid,
                   trades, calls, caught, spent_today>>

\* The market provider's list changes
ListingsChange ==
    /\ pc = "idle"
    /\ \E ls \in ListingStates \ {listings} :
          /\ listings' = ls
          /\ signalTrades' = IF FirstMatch(ls) = FirstMatch(listings)
                             THEN signalTrades ELSE 0
    /\ UNCHANGED <<fixed, responses, dry_run, pc, feed, client, res, momentum, markets, mid,
                   trades, calls, caught, spent_today>>

\* while True: try: run_fast_market_strategy(dry_run=(not args.live))
Tick ==
    /\ pc = "idle"
    /\ pc' = "fetch"
    /\ UNCHANGED <<fixed, responses, dry_run, feed, listings, client, res, momentum, markets, mid,
                   trades, calls, caught, spent_today, signalTrades>>

\* An exception leaves run_fast_market_strategy and terminates the process
RaiseToLoop_uncaught == pc' = "crashed" /\ caught' = "none"

\* An exception leaves run_fast_market_strategy: except Exception of the loop
RaiseToLoop == pc' = "done" /\ caught' = "loop"

\* An exception inside the try of run_fast_market_strategy: its except Exception
RaiseInner == pc' = "done" /\ caught' = "inner"

\* The signal step of a cycle on the klines request's result: "raise", "skip"
\* (return at line 121) or "go" (continue to discover_markets)
SignalStep(result) ==
    LET out == get_binance_momentum(result)
    IN  IF out.raises THEN "raise"
        ELSE IF out.value = None \/ TooWeak(out.value[1]) THEN "skip"
        ELSE "go"

\* momentum = get_binance_momentum(...); if not momentum or abs(...) < ...: return
Fetch ==
    /\ pc = "fetch"
    /\ \E kind \in ApiKinds :
          LET result == ApiResult(kind, IF kind = "ok" THEN LastN(feed, lookback_minutes) ELSE <<>>)
              out    == get_binance_momentum(result)
              step   == SignalStep(result)
          IN  /\ res' = result.body
              /\ momentum' = out.value
              /\ calls' = calls \cup {"klines"}
              /\ responses' = Append(responses, kind)
              /\ CASE step = "raise" -> RaiseToLoop
                   [] step = "skip"  -> pc' = "done" /\ caught' = caught
                   [] OTHER          -> pc' = "discover" /\ caught' = caught
    /\ UNCHANGED <<fixed, dry_run, feed, listings, client, markets, mid, trades,
                   spent_today, signalTrades>>

\* markets = discover_markets(...); if not markets: return
Discover ==
    /\ pc = "discover"
    /\ \E kind \in ApiKinds :
          LET result == ApiResult(kind, IF kind = "ok" THEN listings ELSE <<>>)
              out    == discover_markets(result, asset, window)
          IN  /\ markets' = out.value
              /\ calls' = calls \cup {"markets"}
              /\ responses' = Append(responses, kind)
              /\ IF out.raises THEN RaiseToLoop
                 ELSE IF out.value = <<>> THEN pc' = "done" /\ caught' = caught
                 ELSE pc' = "client" /\ caught' = caught
    /\ UNCHANGED <<fixed, dry_run, feed, listings, client, res, momentum, mid, trades,
                   spent_today, signalTrades>>

\* the last match as the target
Target_last == markets[Len(markets)]

\* target = markets[0]
Target == markets[1]

\* client = get_client(live=not dry_run): the global _client is constructed
\* on the first call only; the construction can raise
GetClient ==
    /\ pc = "client"
    /\ calls' = calls \cup {"get_client"}
    /\ \E constructs \in BOOLEAN :
          LET got == get_client(client, ~dry_run, constructs)
          IN  /\ client' = got.client
              /\ IF got.raises THEN RaiseInner
                 ELSE pc' = "import" /\ caught' = caught
    /\ UNCHANGED <<fixed, responses, dry_run, feed, listings, res, momentum, markets, mid, trades,
                   spent_today, signalTrades>>

\* res = client.import_market(...); mid = res.get("market_id"); if mid:
ImportMarket ==
    /\ pc = "import"
    /\ calls' = calls \cup {"import_market"}
    /\ \/ mid' = Some(MarketId(Target)) /\ pc' = "trade" /\ caught' = caught
       \/ mid' = None /\ pc' = "done" /\ caught' = caught
       \/ mid' = None /\ RaiseInner
    /\ UNCHANGED <<fixed, responses, dry_run, feed, listings, client, res, momentum, markets, trades,
                   spent_today, signalTrades>>

\* the order client.trade is called with
Order == [ market_id |-> mid[1], side |-> IF Side(momentum[1]) = "yes" THEN "buy_yes" ELSE "buy_no",
           amount |-> cfg[1].max_position, live |-> client[1].live ]

\* client.trade in a loop that calls it again when it raises
Trade_retry ==
    /\ pc = "trade"
    /\ calls' = calls \cup {"trade"}
    /\ trades' = Append(trades, Order)
    /\ \/ /\ spent_today < MaxFills * cfg[1].max_position
          /\ spent_today' = spent_today + cfg[1].max_position
          /\ signalTrades' = signalTrades + 1
          /\ pc' = "done" /\ caught' = caught
       \/ /\ UNCHANGED <<spent_today, signalTrades>>
          /\ pc' = "trade" /\ caught' = "inner"
    /\ UNCHANGED <<fixed, responses, dry_run, feed, listings, client, res, momentum, markets, mid>>

\* trade = client.trade(market_id=mid, side=f"buy_{side}", amount=cfg["max_position"]):
\* it returns the placed trade, or raises
Trade ==
    /\ pc = "trade"
    /\ calls' = calls \cup {"trade"}
    /\ trades' = Append(trades, Order)
    /\ \/ /\ spent_today < MaxFills * cfg[1].max_position
          /\ spent_today' = spent_today + cfg[1].max_position
          /\ signalTrades' = signalTrades + 1
          /\ pc' = "done" /\ caught' = caught
       \/ UNCHANGED <<spent_today, signalTrades>> /\ RaiseInner
    /\ UNCHANGED <<fixed, responses, dry_run, feed, listings, client, res, momentum, markets, mid>>

\* time.sleep(30): the cycle's locals are gone
Sleep ==
    /\ pc = "done"
    /\ pc' = "idle"
    /\ res' = <<>>
    /\ momentum' = None
    /\ markets' = <<>>
    /\ mid' = None
    /\ trades' = <<>>
    /\ calls' = {}
    /\ responses' = <<>>
    /\ caught' = "none"
    /\ UNCHANGED <<fixed, dry_run, feed, listings, client, spent_today, signalTrades>>

\* the steps of the process
Step == Tick \/ Fetch \/ Discover \/ GetClient \/ ImportMarket \/ Trade \/ Sleep

Next ==
    \/ NewCandle
    \/ ListingsChange
    \/ Tick
    \/ Fetch
    \/ Discover
    \/ GetClient
    \/ ImportMarket
    \/ Trade
    \/ Sleep

Spec == Init /\ [][Next]_vars

\* cfg = _load_config(CONFIG_SCHEMA, __file__), at import: a ValueError ends
\* the process before the loop
LoadConfig ==
    /\ pc = "start"
    /\ LET loaded == load_config(file_cfg, environ)
       IN  /\ cfg' = loaded.value
           /\ pc' = IF loaded.raises THEN "exited" ELSE "idle"
    /\ UNCHANGED <<file_cfg, environ, clientCalls, dry_run, feed, listings, client, res,
                   momentum, markets, mid, trades, calls, responses, caught,
                   spent_today, signalTrades>>

\* A live process before its start, with any config.json and environment, on
\* a rising window and one matching listing
ConfigInit ==
    /\ file_cfg \in FileConfigs
    /\ environ \in Environs
    /\ cfg = None
    /\ clientCalls = <<>>
    /\ dry_run = FALSE
    /\ pc = "start"
    /\ feed = [i \in 1..lookback_minutes |-> Candle(201, 205, 1)]
    /\ listings = <<Listing(<<"Bitcoin", "Up", "or", "Down">>, <<"btc", "updown", "5m", "1">>, "true")>>
    /\ client = None
    /\ res = <<>>
    /\ momentum = None
    /\ markets = <<>>
    /\ mid = None
    /\ trades = <<>>
    /\ calls = {}
    /\ responses = <<>>
    /\ caught = "none"
    /\ spent_today = 0
    /\ signalTrades = 0

ConfigNext ==
    \/ LoadConfig
    \/ Tick
    \/ Fetch
    \/ Discover
    \/ GetClient
    \/ ImportMarket
    \/ Trade
    \/ Sleep

\* The process from its start: the load of the configuration, then the loop
ConfigSpec == ConfigInit /\ [][ConfigNext]_vars

\* A dry-run process on a rising window, with any list of listings that the
\* market provider keeps returning
MatcherInit ==
    /\ file_cfg = NoFile
    /\ environ = NoEnviron
    /\ cfg = load_config(NoFile, NoEnviron).value
    /\ clientCalls = <<>>
    /\ dry_run = TRUE
    /\ pc = "idle"
    /\ feed = [i \in 1..lookback_minutes |-> Candle(201, 205, 1)]
    /\ listings \in MatcherLists(MaxMatcherList)
    /\ client = None
    /\ res = <<>>
    /\ momentum = None
    /\ markets = <<>>
    /\ mid = None
    /\ trades = <<>>
    /\ calls = {}
    /\ responses = <<>>
    /\ caught = "none"
    /\ spent_today = 0
    /\ signalTrades = 0

MatcherNext ==
    \/ Tick
    \/ Fetch
    \/ Discover
    \/ GetClient
    \/ ImportMarket
    \/ Trade
    \/ Sleep

\* The loop over every list of listings
MatcherSpec == MatcherInit /\ [][MatcherNext]_vars

\* get_client(live) called by a caller other than the cycle, with either mode
GetClientCall ==
    /\ pc = "idle"
    /\ Len(clientCalls) < MaxClientCalls
    /\ \E live \in BOOLEAN, constructs \in BOOLEAN :
          LET got == get_client(client, live, constructs)
          IN  /\ client' = got.client
              /\ clientCalls' = Append(clientCalls, [live |-> live, returned |-> got.returned])
    /\ UNCHANGED <<file_cfg, environ, cfg, dry_run, pc, feed, listings, res, momentum,
                   markets, mid, trades, calls, responses, caught, spent_today, signalTrades>>

\* A process in which nothing but get_client runs
ClientInit ==
    /\ file_cfg = NoFile
    /\ environ = NoEnviron
    /\ cfg = load_config(NoFile, NoEnviron).value
    /\ clientCalls = <<>>
    /\ dry_run = FALSE
    /\ pc = "idle"
    /\ feed = <<>>
    /\ listings = <<>>
    /\ client = None
    /\ res = <<>>
    /\ momentum = None
    /\ markets = <<>>
    /\ mid = None
    /\ trades = <<>>
    /\ calls = {}
    /\ responses = <<>>
    /\ caught = "none"
    /\ spent_today = 0
    /\ signalTrades = 0

ClientNext == GetClientCall

\* Any sequence of get_client calls
ClientSpec == ClientInit /\ [][ClientNext]_vars

\* The loop is sequential and its external requests time out: the process
\* always takes its next step
FairSpec == Spec /\ WF_vars(Step)

TypeOK ==
    /\ dry_run \in BOOLEAN
    /\ pc \in {"start", "exited", "idle", "fetch", "discover", "client", "import", "trade", "done"}
    /\ Len(cfg) <= 1
    /\ Len(feed) <= lookback_minutes
    /\ Len(listings) <= MaxListings
    /\ Len(client) <= 1
    /\ Len(momentum) <= 1
    /\ Len(mid) <= 1
    /\ caught \in {"none", "inner", "loop"}
    /\ Len(responses) <= 2 /\ \A i \in 1..Len(responses) : responses[i] \in ApiKinds
    /\ spent_today >= 0
    /\ signalTrades \in 0..MaxFills

-----------------------------------------------------------------------------
(* Claims *)

\* C1: the total amount of the successfully submitted trades never exceeds
\* daily_budget.
C1_BudgetInvariant == spent_today <= daily_budget

\* C2: for one signal event (the same price window and the same matched
\* market over consecutive ticks) at most one order is placed.
C2_OneOrderPerSignal == signalTrades <= 1

\* C3 as stated: a cycle with an actionable signal makes exactly one
\* client.trade call.
C3_ExactlyOneTradePerActionableCycle ==
    (pc = "done" /\ momentum # None /\ caught # "loop" /\ "markets" \in calls)
        => Len(trades) = 1

\* C3 as amended: a cycle makes at most one client.trade call; it makes
\* exactly one when import_market returned a market_id, and none otherwise;
\* a call that raised is not repeated.
C3_AtMostOneTradePerCycle ==
    /\ Len(trades) <= 1
    /\ pc = "done" => (Len(trades) = 1 <=> mid # None)

C3_Witness == pc = "done" /\ Len(trades) = 1 /\ caught = "inner"

C5_LoopNeverStops == []<>(pc = "idle") /\ []<>(pc = "fetch")

C5_Witness == pc = "done" /\ caught = "loop" /\ "markets" \in calls

\* abs(momentum_pct) < momentum_threshold_pct, for a signal of the cycle
BelowThreshold(m) == Abs(m.pct_num) * 100 < min_momentum_pct_x100 * Abs(m.pct_den)

\* C6: a cycle whose signal is missing or below the threshold makes no market
\* discovery, client, import_market or trade call, and its signal step
\* changes no trading state.
C6_ThresholdGating ==
    /\ []((momentum = None \/ BelowThreshold(momentum[1]))
            => /\ pc \in {"idle", "fetch", "done"}
               /\ calls \subseteq {"klines"}
               /\ markets = <<>> /\ mid = None /\ trades = <<>>)
    /\ [][(pc = "fetch" /\ pc' = "done")
            => UNCHANGED <<client, trades, spent_today, signalTrades>>]_vars

C6_Witness ==
    /\ pc = "done" /\ momentum # None /\ BelowThreshold(momentum[1])
    /\ momentum[1].pct_num # 0

\* C7: no listing with active == false is selected as the trade target.
C7_NoInactiveTarget == markets # <<>> => markets[1].active # "false"

\* C8: a fetch of fewer than lookback_size klines gives no signal, and the
\* cycle makes no market discovery and no trade.
C8_IncompleteWindowNoSignal ==
    ("klines" \in calls /\ Len(res) < lookback_minutes)
        => momentum = None /\ calls \subseteq {"klines"}

WithVolumes(r, v) == [i \in 1..Len(r) |-> [r[i] EXCEPT !.volume = v[i]]]

\* C10, on complete windows: a cycle's decision to go past the signal step is
\* the same for every assignment of volumes to the klines it fetched.
C10_VolumeNeverGates ==
    (pc = "done" /\ res # <<>> /\ Len(res) = lookback_minutes)
        => \A v \in [1..Len(res) -> Volumes] :
              SignalStep(ApiResult("ok", WithVolumes(res, v))) = "go" <=> "markets" \in calls

\* C11: a cycle whose price fetch failed (the request or the JSON parse
\* raised inside _api_request) ends with no signal, no exception, no market
\* discovery and no trade, and like every cycle it is followed by the
\* loop's one sleep.
C11_FailedFetchSkipsTick ==
    /\ []((responses # <<>> /\ responses[1] = "error")
            => /\ pc = "done" /\ caught = "none" /\ momentum = None
               /\ calls = {"klines"} /\ markets = <<>> /\ mid = None /\ trades = <<>>)
    /\ [][pc = "done" => pc' = "idle"]_vars

C11_Witness == pc = "done" /\ responses = <<"error">> /\ calls = {"klines"}

\* C12: a cycle with an actionable signal whose market discovery gives an
\* empty list (no listing matches, or the request failed) makes no client,
\* import_market or trade call, raises nothing and changes no trading state.
C12_NoMarketIsASkip ==
    /\ []((Len(responses) = 2 /\ responses[2] \in {"ok", "error"} /\ markets = <<>>)
            => /\ pc = "done" /\ caught = "none"
               /\ calls = {"klines", "markets"} /\ mid = None /\ trades = <<>>)
    /\ [][(pc = "discover" /\ pc' = "done")
            => UNCHANGED <<client, trades, spent_today, signalTrades>>]_vars

C12_Witness ==
    /\ pc = "done" /\ responses = <<"ok", "ok">> /\ listings # <<>> /\ markets = <<>>
    /\ momentum # None /\ ~BelowThreshold(momentum[1])

\* C13: every order submitted in the run loop has amount == max_position > 0
\* (a configuration with max_position <= 0 stops the process at startup).
C13_PositiveAmounts ==
    \A i \in 1..Len(trades) :
        trades[i].amount = cfg[1].max_position /\ trades[i].amount > 0

\* C17: for every option of a loaded configuration, the value is the file's
\* when the file defines the key, otherwise the variable's value when the
\* variable is set, otherwise the default.
C17_EnvWheneverSet ==
    cfg # None =>
        \A k \in ConfigKeys :
            IF file_cfg[k] # None THEN cfg[1][k] = file_cfg[k][1]
            ELSE IF environ[k] # None
            THEN Convert(k, environ[k][1]).raises
                    \/ cfg[1][k] = Convert(k, environ[k][1]).value
            ELSE cfg[1][k] = DefaultOf(k)

\* C17 as the code has it: for every option of a loaded configuration, the
\* value is the file's when the file defines the key, otherwise the converted
\* value of the variable when it is set to a non-empty string, otherwise the
\* default; a variable never overrides the file.
C17_Layering ==
    cfg # None =>
        \A k \in ConfigKeys :
            IF file_cfg[k] # None THEN cfg[1][k] = file_cfg[k][1]
            ELSE IF environ[k] # None /\ environ[k][1] # ""
            THEN /\ ~Convert(k, environ[k][1]).raises
                 /\ cfg[1][k] = Convert(k, environ[k][1]).value
            ELSE cfg[1][k] = DefaultOf(k)

C17_Witness ==
    /\ cfg # None
    /\ file_cfg["max_position"] = Some(7) /\ environ["max_position"] = Some("3")
    /\ cfg[1].max_position = 7
    /\ file_cfg["volume_confidence"] = None /\ environ["volume_confidence"] = Some("YES")
    /\ cfg[1].volume_confidence = TRUE

\* C14: every kline of a window a signal was computed from belongs to an
\* interval that has ended; the kline in progress is never the newest sample.
C14_ClosedSamplesOnly ==
    momentum # None => \A i \in 1..Len(res) : res[i].closed

\* the question contains, whatever its case, the pattern of BTC and the slug
\* embeds "-5m-": the listing is one of the configured asset and window
IsConfiguredMarket(l) ==
    /\ Contains(LowerAll(l.question), <<"bitcoin", "up", "or", "down">>)
    /\ \E i \in 2..(Len(l.slug) - 1) : l.slug[i] = "5m"

\* C15: after a market discovery that got the provider's list, markets holds
\* exactly the listings of the configured asset and window, each once and in
\* the provider's order; the market imported is the first of them.
C15_MatcherResult ==
    (Len(responses) = 2 /\ responses[2] = "ok") =>
        /\ \A i \in 1..Len(markets) :
              /\ IsConfiguredMarket(markets[i])
              /\ \E j \in 1..Len(listings) : listings[j] = markets[i]
        /\ \A j \in 1..Len(listings) :
              IsConfiguredMarket(listings[j]) => \E i \in 1..Len(markets) : markets[i] = listings[j]
        /\ \A i1, i2 \in 1..Len(markets) : \A j1, j2 \in 1..Len(listings) :
              (i1 < i2 /\ listings[j1] = markets[i1] /\ listings[j2] = markets[i2]) => j1 < j2
        /\ mid # None =>
              \E j \in 1..Len(listings) :
                  /\ IsConfiguredMarket(listings[j]) /\ mid[1] = <<"market">> \o listings[j].slug
                  /\ \A h \in 1..(j - 1) : ~IsConfiguredMarket(listings[h])

C15_Witness ==
    /\ pc = "done" /\ mid # None /\ Len(listings) = 3 /\ Len(markets) = 1
    /\ markets[1] = listings[2]
    /\ listings[1].slug[1] \in {"eth", "sol"} /\ listings[3].slug[3] = "15m"

\* C16: every order has side buy_yes if and only if the direction of the
\* cycle's signal is up, and buy_no if and only if it is down.
C16_SideFollowsDirection ==
    \A i \in 1..Len(trades) :
        /\ momentum # None
        /\ momentum[1].direction \in {"up", "down"}
        /\ trades[i].side = "buy_yes" <=> momentum[1].direction = "up"
        /\ trades[i].side = "buy_no" <=> momentum[1].direction = "down"

C16_Witness ==
    /\ pc = "done" /\ Len(trades) = 1 /\ trades[1].side = "buy_no"
    /\ res[Len(res)].close < res[1].open

\* C18: client.trade is called only after import_market, in the same cycle,
\* gave a market_id for the slug of the first matched listing, and with that
\* market_id; a cycle whose import_market gave none or raised makes no trade.
C18_TradeOnlyAfterImport ==
    /\ trades # <<>> =>
          /\ "import_market" \in calls /\ mid # None /\ markets # <<>>
          /\ mid[1] = <<"market">> \o markets[1].slug
          /\ \A i \in 1..Len(trades) : trades[i].market_id = mid[1]
    /\ ("import_market" \in calls /\ mid = None) => (trades = <<>> /\ "trade" \notin calls)

C18_Witness ==
    /\ pc = "done" /\ Len(trades) = 1 /\ Len(markets) = 2
    /\ trades[1].market_id = <<"market">> \o listings[1].slug

\* C19: over any sequence of get_client calls, every call that returns gives
\* the same client object, whose mode is the live argument of the call that
\* created it; a later call with another live value changes nothing.
C19_SingletonLatched ==
    \A i \in 1..Len(clientCalls) :
        clientCalls[i].returned # None =>
            /\ client = clientCalls[i].returned
            /\ \A j \in 1..Len(clientCalls) :
                  clientCalls[j].returned # None => clientCalls[j].returned = clientCalls[i].returned
            /\ (\A h \in 1..(i - 1) : clientCalls[h].returned = None)
                  => clientCalls[i].returned[1].live = clientCalls[i].live

C19_Witness ==
    /\ Len(clientCalls) >= 2
    /\ clientCalls[1].returned # None
    /\ clientCalls[2].live # clientCalls[1].live
    /\ clientCalls[2].returned = clientCalls[1].returned

=============================================================================
